---- MODULE Spec2Model ----
(***************************************************************************)
(* Model of modal_export.py: the two export handlers (export_concatenated, *)
(* export_separate), the /exports volume they write to, and the store      *)
(* operations list_exports, get_export_file and cleanup_old_exports.       *)
(*                                                                         *)
(* Python values: an optional number is a set, None == {} and the number v *)
(* is {v}.  A key that is absent from a shot dict reads as None through    *)
(* dict.get, so an absent key is the field value None (explicit nulls are  *)
(* not among the inputs).                                                  *)
(***************************************************************************)
EXTENDS Integers, Sequences, FiniteSets, TLC

\* ------------------------------------------------------------------ bounds
MaxShots == 2
MaxTime == 2

\* --------------------------------------------------------- python values
None == {}
Num(v) == {v}
Val(x) == CHOOSE v \in x : TRUE

\* Python truthiness of an optional number: None and 0 are falsy.
Truthy(x) == x # None /\ Val(x) # 0

\* Python `a or b`: a when a is truthy, otherwise b.
PyOr(a, b) == IF Truthy(a) THEN a ELSE b

\* ----------------------------------------------------------------- inputs
StartTimes == {None, Num(-1), Num(0), Num(2)}
Timestamps == {None, Num(1)}
EndTimes == {None, Num(2)}
Durations == {None, Num(4)}
Indexes == {None, Num(0), Num(1)}

AllShots == [startTime : StartTimes, timestamp : Timestamps, endTime : EndTimes,
             duration : Durations, index : Indexes]

\* Raw shots of one isolated call: the start is given under one key (or under
\* neither); the index is absent or 1.
RawShots == {s \in AllShots : (s.startTime = None \/ s.timestamp = None)
                               /\ s.index \in {None, Num(1)}}

\* Raw shots of the calls that run next to the store operations: well-timed
\* shots that differ in their index only.
StoreShots == {s \in AllShots : s.startTime = Num(2) /\ s.timestamp = None
                                 /\ s.endTime = None /\ s.duration = None
                                 /\ s.index \in {None, Num(0)}}

SeqsUpTo(S, n) == UNION {[1..m -> S] : m \in 0..n}

HttpUrl == "https://host/video.mp4"
LocalPath == "/data/video.mp4"
TmpInput == "/tmp/input.mp4"

\* video_url.startswith("http")
StartsWithHttp(url) == url = HttpUrl

\* ------------------------------------------------------------- file names
\* f"shot_{shot_index}.mp4": one name per value of shot_index, None included.
ShotFilename(shot_index) == [stem |-> "shot", idx |-> shot_index]
ExportName == [stem |-> "export", idx |-> None]
OutputNames == {ExportName}
Filenames == OutputNames \cup {ShotFilename(i) : i \in Indexes}

\* ------------------------------------------------------- shot derivation
DefaultDuration == 3

\* start = shot.get('startTime') or shot.get('timestamp')
DeriveStart(shot) == PyOr(shot.startTime, shot.timestamp)

\* duration = shot.get('duration', 3) if end is None else end - start;
\* `end - start` raises TypeError when start is None.
DeriveShot(shot) ==
  LET start == DeriveStart(shot)
      end == shot.endTime
  IN IF end = None
       THEN [ok |-> TRUE, start |-> start,
             duration |-> IF shot.duration = None THEN Num(DefaultDuration)
                          ELSE shot.duration]
       ELSE IF start = None
              THEN [ok |-> FALSE, start |-> start, duration |-> None]
              ELSE [ok |-> TRUE, start |-> start,
                    duration |-> Num(Val(end) - Val(start))]

\* ----------------------------------------------------------- filter graph
VLabel(i) == <<"v", i>>
ALabel(i) == <<"a", i>>

\* "[0:v]trim=start=..:duration=..,setpts=PTS-STARTPTS,scale=..,pad=..[v{i}]"
VideoStage(d, i) == [kind |-> "trim", start |-> d.start, duration |-> d.duration,
                     out |-> VLabel(i), inputs |-> <<>>, n |-> 0]
\* "[0:a]atrim=start=..:duration=..,asetpts=PTS-STARTPTS[a{i}]"
AudioStage(d, i) == [kind |-> "atrim", start |-> d.start, duration |-> d.duration,
                     out |-> ALabel(i), inputs |-> <<>>, n |-> 0]

\* inputs.append(f"[v{i}][a{i}]")
InputsPrepend(inputs, i) == <<VLabel(i), ALabel(i)>> \o inputs
InputsAppend(inputs, i) == inputs \o <<VLabel(i), ALabel(i)>>

\* f"{''.join(inputs)}concat=n={len(shots)}:v=1:a=1[outv][outa]"
ConcatStage(inputs, count) == [kind |-> "concat", start |-> None, duration |-> None,
                               out |-> <<"out", 0>>, inputs |-> inputs, n |-> count]

\* The loop over enumerate(shots) and the concat stage appended after it.
\* i is the 1-based position, i - 1 the index enumerate gives.
RECURSIVE BuildFrom(_, _, _, _, _)
BuildFrom(sh, i, parts, inputs, derived) ==
  IF i > Len(sh)
    THEN [ok |-> TRUE, parts |-> Append(parts, ConcatStage(inputs, Len(sh))),
          derived |-> derived]
    ELSE LET d == DeriveShot(sh[i])
         IN IF ~d.ok
              THEN [ok |-> FALSE, parts |-> <<>>, derived |-> Append(derived, d)]
              ELSE BuildFrom(sh, i + 1,
                             parts \o <<VideoStage(d, i - 1), AudioStage(d, i - 1)>>,
                             InputsAppend(inputs, i - 1),
                             Append(derived, d))

BuildFilter(sh) == BuildFrom(sh, 1, <<>>, <<>>, <<>>)

\* ------------------------------------------------------------------ state
VARIABLES
  files,            \* /exports: file name -> "absent", "partial", "empty", "complete"
  mtime,            \* /exports: file name -> st_mtime
  committed,        \* the names persisted by the last volume.commit()
  now,              \* time.time()
  pc,               \* the export handler: "idle", "curl", "plan", "ffmpeg", "done"
  mode,             \* "concat" (export_concatenated) or "separate" (export_separate)
  input_path,
  shots,
  output_path,      \* the file the current ffmpeg command writes
  opened,           \* the running ffmpeg has created its output file
  derived,          \* start and duration the handler computed, one entry per shot reached
  filter_complex,   \* filter_parts of export_concatenated, <<>> before it is built
  exported_files,   \* exported_files of export_separate
  ffmpeg_runs,      \* ffmpeg subprocesses started by the current call
  result,           \* what the call returned or raised
  before,           \* /exports as it was when the call began
  observation,      \* what the last list_exports / get_export_file returned
  sweep             \* what the last cleanup_old_exports saw and returned

storeVars == <<files, mtime, committed>>
jobVars == <<pc, mode, input_path, shots, output_path, opened, derived,
             filter_complex, exported_files, ffmpeg_runs, result, before>>
vars == <<files, mtime, committed, now, pc, mode, input_path, shots, output_path,
          opened, derived, filter_complex, exported_files, ffmpeg_runs, result,
          before, observation, sweep>>

NoResult == [kind |-> "none", exc |-> "", file_size |-> 0]
Raised(e) == [kind |-> "raise", exc |-> e, file_size |-> 0]
\* {"success": True, ...}
Returned(size) == [kind |-> "return", exc |-> "", file_size |-> size]

NoObservation == [op |-> "none", names |-> {}, writing |-> {}, uncommitted |-> {},
                  found |-> TRUE]
NoSweep == [ran |-> FALSE, max_age_hours |-> 0, visited |-> {}, fresh |-> {},
            deleted |-> 0, remaining |-> 0, left |-> {}]

Visible(fs) == {f \in Filenames : fs[f] # "absent"}

\* os.path.getsize on an existing file: 0 for a zero-byte file.
GetSize(content) == IF content = "empty" THEN 0 ELSE 1

Init ==
  /\ files = [f \in Filenames |-> "absent"]
  /\ mtime = [f \in Filenames |-> 0]
  /\ committed = {}
  /\ now = 0
  /\ pc = "idle"
  /\ mode = "concat"
  /\ input_path = ""
  /\ shots = <<>>
  /\ output_path = ExportName
  /\ opened = FALSE
  /\ derived = <<>>
  /\ filter_complex = <<>>
  /\ exported_files = <<>>
  /\ ffmpeg_runs = 0
  /\ result = NoResult
  /\ before = [f \in Filenames |-> "absent"]
  /\ observation = NoObservation
  /\ sweep = NoSweep

\* --------------------------------------------------------- export handlers
\* The ffmpeg process whose output file is still being written.
Writing == IF pc = "ffmpeg" /\ opened THEN {output_path} ELSE {}

\* subprocess.run(cmd, ...) starts ffmpeg with "-y" on path p.  The engine
\* creates (or truncates) p once it has accepted its arguments and input; it
\* may also stop before that.
SpawnFfmpeg(p) ==
  /\ ffmpeg_runs' = ffmpeg_runs + 1
  /\ output_path' = p
  /\ pc' = "ffmpeg"
  /\ \E o \in BOOLEAN :
       /\ opened' = o
       /\ files' = IF o THEN [files EXCEPT ![p] = "partial"] ELSE files
       /\ mtime' = IF o THEN [mtime EXCEPT ![p] = now] ELSE mtime
  /\ UNCHANGED committed

\* The handler's entry, up to the download of the source.
BeginCall(m, url, sh, name) ==
  /\ mode' = m
  /\ shots' = sh
  /\ output_path' = name
  /\ opened' = FALSE
  /\ derived' = <<>>
  /\ filter_complex' = <<>>
  /\ exported_files' = <<>>
  /\ ffmpeg_runs' = 0
  /\ result' = NoResult
  /\ before' = files
  /\ IF StartsWithHttp(url)
       THEN pc' = "curl" /\ input_path' = TmpInput
       ELSE pc' = "plan" /\ input_path' = url
  /\ UNCHANGED <<storeVars, now, observation, sweep>>

ExportConcatenated(S, U) ==
  /\ pc = "idle"
  /\ \E url \in U, sh \in SeqsUpTo(S, MaxShots), name \in OutputNames :
       BeginCall("concat", url, sh, name)

ExportSeparate(S, U) ==
  /\ pc = "idle"
  /\ \E url \in U, sh \in SeqsUpTo(S, MaxShots) :
       BeginCall("separate", url, sh, ExportName)

\* subprocess.run(["curl", ...], check=True) returns or raises.
CurlExit ==
  /\ pc = "curl"
  /\ \E rc \in {0, 1} :
       IF rc # 0
         THEN pc' = "done" /\ result' = Raised("CalledProcessError")
         ELSE pc' = "plan" /\ UNCHANGED result
  /\ UNCHANGED <<storeVars, now, mode, input_path, shots, output_path, opened,
                 derived, filter_complex, exported_files, ffmpeg_runs, before,
                 observation, sweep>>

\* export_concatenated from the filter loop to the start of ffmpeg.
PlanConcatenated ==
  /\ pc = "plan" /\ mode = "concat"
  /\ LET b == BuildFilter(shots)
     IN /\ derived' = b.derived
        /\ IF ~b.ok
             THEN /\ pc' = "done"
                  /\ result' = Raised("TypeError")
                  /\ UNCHANGED <<storeVars, filter_complex, output_path, opened,
                                 ffmpeg_runs>>
             ELSE /\ filter_complex' = b.parts
                  /\ SpawnFfmpeg(output_path)
                  /\ UNCHANGED result
  /\ UNCHANGED <<now, mode, input_path, shots, exported_files, before,
                 observation, sweep>>

\* export_separate: one turn of `for shot in shots` up to the start of ffmpeg,
\* or, for an empty list, the commit and the return after the loop.
PlanSeparate ==
  /\ pc = "plan" /\ mode = "separate"
  /\ IF Len(derived) = Len(shots)
       THEN /\ committed' = Visible(files)
            /\ pc' = "done"
            /\ result' = Returned(0)
            /\ UNCHANGED <<files, mtime, derived, output_path, opened, ffmpeg_runs>>
       ELSE LET shot == shots[Len(derived) + 1]
                d == DeriveShot(shot)
            IN /\ derived' = Append(derived, d)
               /\ IF ~d.ok
                    THEN /\ pc' = "done"
                         /\ result' = Raised("TypeError")
                         /\ UNCHANGED <<storeVars, output_path, opened, ffmpeg_runs>>
                    ELSE /\ SpawnFfmpeg(ShotFilename(shot.index))
                         /\ UNCHANGED result
  /\ UNCHANGED <<now, mode, input_path, shots, filter_complex, exported_files,
                 before, observation, sweep>>

\* What ffmpeg leaves at its output path when it exits with code rc.
FinalContents(rc) == IF rc = 0 THEN {"complete", "empty"} ELSE {"partial"}

\* ffmpeg exits; subprocess.run(check=True) raises on a nonzero code, then
\* os.path.getsize, then the commit and return (concatenated) or the append
\* and the next turn of the loop (separate).
FfmpegExit ==
  /\ pc = "ffmpeg"
  /\ \E rc \in {0, 1} : \E c \in FinalContents(rc) :
       LET written == opened /\ files[output_path] # "absent"
           fs == IF written THEN [files EXCEPT ![output_path] = c] ELSE files
           last == Len(derived) = Len(shots)
       IN /\ files' = fs
          /\ mtime' = IF written THEN [mtime EXCEPT ![output_path] = now] ELSE mtime
          /\ opened' = FALSE
          /\ IF rc # 0
               THEN /\ pc' = "done"
                    /\ result' = Raised("CalledProcessError")
                    /\ UNCHANGED <<committed, exported_files>>
               ELSE IF fs[output_path] = "absent"
                 THEN /\ pc' = "done"
                      /\ result' = Raised("FileNotFoundError")
                      /\ UNCHANGED <<committed, exported_files>>
                 ELSE LET file_size == GetSize(fs[output_path])
                      IN IF mode = "concat"
                           THEN /\ committed' = Visible(fs)
                                /\ pc' = "done"
                                /\ result' = Returned(file_size)
                                /\ UNCHANGED exported_files
                           ELSE /\ exported_files' = Append(exported_files,
                                      [filename |-> output_path,
                                       shot_index |-> shots[Len(derived)].index,
                                       file_size |-> file_size])
                                /\ IF last
                                     THEN /\ committed' = Visible(fs)
                                          /\ pc' = "done"
                                          /\ result' = Returned(0)
                                     ELSE /\ pc' = "plan"
                                          /\ UNCHANGED <<committed, result>>
  /\ UNCHANGED <<now, mode, input_path, shots, output_path, derived,
                 filter_complex, ffmpeg_runs, before, observation, sweep>>

\* The caller has the call's outcome and the handler's locals are gone; the
\* next call may begin.
Return ==
  /\ pc = "done"
  /\ pc' = "idle"
  /\ mode' = "concat"
  /\ input_path' = ""
  /\ shots' = <<>>
  /\ output_path' = ExportName
  /\ derived' = <<>>
  /\ filter_complex' = <<>>
  /\ exported_files' = <<>>
  /\ ffmpeg_runs' = 0
  /\ result' = NoResult
  /\ before' = [f \in Filenames |-> "absent"]
  /\ UNCHANGED <<storeVars, now, opened, observation, sweep>>

\* -------------------------------------------------------- store operations
\* What a reader is handed when it reads the names `names` at this moment; with
\* them, which of the names an ffmpeg process is still writing and which the
\* last volume.commit() did not cover.
Observed(op, names, found) ==
  [op |-> op, names |-> names, writing |-> names \cap Writing,
   uncommitted |-> names \ committed, found |-> found]

\* list_exports: the names in /exports at this moment.
ListExports ==
  /\ observation' = Observed("list", Visible(files), TRUE)
  /\ UNCHANGED <<storeVars, now, jobVars, sweep>>

\* get_export_file(filename): the file's bytes, or FileNotFoundError.
GetExportFile ==
  /\ \E filename \in Filenames :
       observation' = IF files[filename] = "absent"
                        THEN Observed("get", {}, FALSE)
                        ELSE Observed("get", {filename}, TRUE)
  /\ UNCHANGED <<storeVars, now, jobVars, sweep>>

SecondsPerHour == 3600
MaxAgeHours == {0, 1}

\* if file_age > max_age_seconds
IsExpiredOrEqual(file_age, max_age_seconds) == file_age >= max_age_seconds
IsExpired(file_age, max_age_seconds) == file_age > max_age_seconds

\* The loop over exports_dir.iterdir() with its two counters.
RECURSIVE SweepFrom(_, _, _, _, _, _, _)
SweepFrom(todo, fs, mt, deleted, remaining, current_time, max_age_seconds) ==
  IF todo = {}
    THEN [files |-> fs, mtime |-> mt, deleted |-> deleted, remaining |-> remaining]
    ELSE LET file_path == CHOOSE f \in todo : TRUE
             file_age == current_time - mt[file_path]
         IN IF IsExpired(file_age, max_age_seconds)
              THEN SweepFrom(todo \ {file_path},
                             [fs EXCEPT ![file_path] = "absent"],
                             [mt EXCEPT ![file_path] = 0],
                             deleted + 1, remaining, current_time, max_age_seconds)
              ELSE SweepFrom(todo \ {file_path}, fs, mt, deleted, remaining + 1,
                             current_time, max_age_seconds)

\* cleanup_old_exports(max_age_hours); sweep also records which files the
\* directory held, which of them were not modified before the clock reading,
\* and which it holds afterwards.
CleanupOldExports ==
  /\ \E max_age_hours \in MaxAgeHours :
       LET r == SweepFrom(Visible(files), files, mtime, 0, 0, now,
                          max_age_hours * SecondsPerHour)
       IN /\ files' = r.files
          /\ mtime' = r.mtime
          /\ committed' = Visible(r.files)
          /\ sweep' = [ran |-> TRUE, max_age_hours |-> max_age_hours,
                       visited |-> Visible(files),
                       fresh |-> {f \in Visible(files) : mtime[f] >= now},
                       deleted |-> r.deleted, remaining |-> r.remaining,
                       left |-> Visible(r.files)]
  /\ UNCHANGED <<now, jobVars, observation>>

\* time.time() advances.
Tick ==
  /\ now < MaxTime
  /\ now' = now + 1
  /\ UNCHANGED <<storeVars, jobVars, observation, sweep>>

\* ---------------------------------------------------------- specifications
\* The handlers next to the store's read operations, on well-timed shots of a
\* remote source.
CallConcatenated == ExportConcatenated(StoreShots, {HttpUrl})
CallSeparate == ExportSeparate(StoreShots, {HttpUrl})

Next ==
  \/ CallConcatenated
  \/ CallSeparate
  \/ CurlExit
  \/ PlanConcatenated
  \/ PlanSeparate
  \/ FfmpegExit
  \/ Return
  \/ ListExports
  \/ GetExportFile

Spec == Init /\ [][Next]_vars

\* One call of a handler on its own, on a local source, over every raw shot.
IsolatedConcatenated == ExportConcatenated(RawShots, {LocalPath})
IsolatedSeparate == ExportSeparate(RawShots, {LocalPath})

NextCall ==
  \/ IsolatedConcatenated
  \/ IsolatedSeparate
  \/ PlanConcatenated
  \/ PlanSeparate
  \/ FfmpegExit

SpecCall == Init /\ [][NextCall]_vars

\* The sweep over every store of finished files, whatever their modification
\* times: the files were written by containers whose clocks need not agree
\* with the sweeping container's.
InitSweep ==
  /\ now \in 0..MaxTime
  /\ files \in [Filenames -> {"absent", "complete"}]
  /\ mtime \in [Filenames -> 0..MaxTime]
  /\ \A f \in Filenames : files[f] = "absent" => mtime[f] = 0
  /\ committed = Visible(files)
  /\ pc = "idle"
  /\ mode = "concat"
  /\ input_path = ""
  /\ shots = <<>>
  /\ output_path = ExportName
  /\ opened = FALSE
  /\ derived = <<>>
  /\ filter_complex = <<>>
  /\ exported_files = <<>>
  /\ ffmpeg_runs = 0
  /\ result = NoResult
  /\ before = [f \in Filenames |-> "absent"]
  /\ observation = NoObservation
  /\ sweep = NoSweep

NextSweep ==
  \/ CleanupOldExports
  \/ Tick

SpecSweep == InitSweep /\ [][NextSweep]_vars

\* ------------------------------------------------------------------ claims
\* The start a raw shot supplies, under whichever key it uses.
SuppliedStart(shot) == IF shot.startTime # None THEN shot.startTime ELSE shot.timestamp

\* The duration the data model assigns: endTime - start, else duration, else 3.
ResolvedDuration(shot) ==
  IF shot.endTime # None THEN Num(Val(shot.endTime) - Val(SuppliedStart(shot)))
  ELSE IF shot.duration # None THEN shot.duration
  ELSE Num(3)

HasStart(shot) == SuppliedStart(shot) # None /\ Val(SuppliedStart(shot)) >= 0

\* C1: for every shot whose start is supplied (any value >= 0, 0 included) the
\* handlers derive start = that value and duration = endTime - start when
\* endTime is present, else the supplied duration, else 3, and the derivation
\* does not fail.
C1_DerivationTotal ==
  \A i \in 1..Len(derived) :
    HasStart(shots[i]) =>
      /\ derived[i].ok
      /\ derived[i].start = SuppliedStart(shots[i])
      /\ derived[i].duration = ResolvedDuration(shots[i])

\* C2: for a non-empty shot list of length N the filter built by
\* export_concatenated ends in a concat stage with n = N whose stream list is
\* [v0][a0]...[v(N-1)][a(N-1)] in input order, and the stages labelled v_i and
\* a_i are the trims computed from shot i.
C2_ConcatOrder ==
  (mode = "concat" /\ filter_complex # <<>> /\ Len(shots) >= 1) =>
    LET N == Len(shots)
        c == filter_complex[Len(filter_complex)]
    IN /\ Len(filter_complex) = 2 * N + 1
       /\ c.kind = "concat"
       /\ c.n = N
       /\ Len(c.inputs) = 2 * N
       /\ \A i \in 0..(N - 1) :
            LET d == DeriveShot(shots[i + 1])
                v == filter_complex[2 * i + 1]
                a == filter_complex[2 * i + 2]
            IN /\ c.inputs[2 * i + 1] = <<"v", i>>
               /\ c.inputs[2 * i + 2] = <<"a", i>>
               /\ v.kind = "trim" /\ v.out = <<"v", i>>
               /\ v.start = d.start /\ v.duration = d.duration
               /\ a.kind = "atrim" /\ a.out = <<"a", i>>
               /\ a.start = d.start /\ a.duration = d.duration

\* A filter was built for two shots with different, well-formed timings and
\* ffmpeg is running on it.
C2_Witness ==
  /\ mode = "concat" /\ pc = "ffmpeg" /\ Len(shots) = 2
  /\ filter_complex # <<>>
  /\ HasStart(shots[1]) /\ HasStart(shots[2])
  /\ DeriveShot(shots[1]).start # None /\ DeriveShot(shots[2]).start # None
  /\ DeriveShot(shots[1]).start # DeriveShot(shots[2]).start

\* A shot with a negative start, or whose resolved duration is not positive.
IsMalformed(shot) ==
  /\ SuppliedStart(shot) # None
  /\ \/ Val(SuppliedStart(shot)) < 0
     \/ Val(ResolvedDuration(shot)) <= 0

\* C3: a call given a shot with a negative start or a non-positive resolved
\* duration fails with MalformedShot before any ffmpeg process is started and
\* without creating or changing a file of the store.
C3_MalformedRejected ==
  (pc # "idle" /\ \E i \in 1..Len(shots) : IsMalformed(shots[i])) =>
    /\ ffmpeg_runs = 0
    /\ files = before
    /\ (pc = "done" => result = Raised("MalformedShot"))

\* C4: export_concatenated with an empty shot list fails with EmptyPlan; it
\* builds no filter graph, starts no ffmpeg and leaves the store unchanged.
C4_EmptyPlanRejected ==
  (pc # "idle" /\ mode = "concat" /\ shots = <<>>) =>
    /\ filter_complex = <<>>
    /\ ffmpeg_runs = 0
    /\ files = before
    /\ (pc = "done" => result = Raised("EmptyPlan"))

\* C5: every call of a handler ends by returning a structured outcome; no
\* exception escapes it, whether the download or ffmpeg fails.
C5_NoExceptionEscapes == pc = "done" => result.kind = "return"

\* The files a returned result reports as exported.
ReportedOutputs ==
  IF mode = "concat" THEN {output_path}
  ELSE {exported_files[j].filename : j \in 1..Len(exported_files)}

\* C6: a call reports success only if every output it reports exists and is
\* non-empty; a zero exit that leaves a missing or zero-byte file is a failure.
C6_SuccessNeedsOutput ==
  (pc = "done" /\ result.kind = "return") =>
    \A f \in ReportedOutputs : files[f] \notin {"absent", "empty"}

\* C7: when a call ends in failure the names visible in the store are those
\* visible before the call.
C7_FailureLeavesStore ==
  (pc = "done" /\ result.kind = "raise") => Visible(files) = Visible(before)

SweptAll == sweep.ran /\ sweep.max_age_hours = 0 /\ sweep.visited # {}

\* C8 as stated: cleanup_old_exports(0) on a store of k >= 1 files deletes all
\* of them and returns deleted = k, remaining = 0, whatever their modification
\* times.
C8_DeletesAll ==
  SweptAll =>
    /\ sweep.deleted = Cardinality(sweep.visited)
    /\ sweep.remaining = 0
    /\ sweep.left = {}

\* C8 amended: cleanup_old_exports(0) on a store of k >= 1 files deletes
\* exactly the files modified strictly before the sweep's clock reading and
\* returns deleted = their number, remaining = k - deleted; a file modified at
\* the instant of the sweep stays.
C8_DeletesOlder ==
  SweptAll =>
    /\ sweep.left = sweep.fresh
    /\ sweep.deleted = Cardinality(sweep.visited \ sweep.fresh)
    /\ sweep.remaining = Cardinality(sweep.fresh)
    /\ sweep.deleted + sweep.remaining = Cardinality(sweep.visited)

\* A sweep with max_age_hours = 0 met both a file older than its clock reading
\* and a file modified at that instant.
C8_Witness ==
  /\ SweptAll
  /\ sweep.deleted >= 1
  /\ sweep.remaining >= 1

\* C9: no listing and no read ever returns a file that an ffmpeg process is
\* still writing or that the store has not committed.
C9_NoPartialVisible == observation.writing = {} /\ observation.uncommitted = {}

\* C10: in one export_separate call shot j is written to shot_<index>, index
\* being the raw shot's index or, when it has none, the shot's position, and
\* no two shots of the call are written to the same name.
C10_DistinctNames ==
  mode = "separate" =>
    /\ \A j \in 1..Len(exported_files) :
         exported_files[j].filename =
           ShotFilename(IF shots[j].index = None THEN Num(j - 1) ELSE shots[j].index)
    /\ \A i, j \in 1..Len(exported_files) :
         i # j => exported_files[i].filename # exported_files[j].filename

====
